---- MODULE Spec2Model ----
(***************************************************************************)
(* CrimeSync (src/app.py): a Streamlit page script that connects to the    *)
(* SQLite file crime_data.db through a process-cached connection, lists    *)
(* the tables, offers five predefined queries and a free-form SQL form,    *)
(* and runs every query through the memoised run_query.                    *)
(*                                                                         *)
(* One script run (a page load or a rerun triggered by a widget) is the    *)
(* sequence  connect (l.37) -> tables (l.90-92) -> predefined (l.97-183)   *)
(* -> custom (l.190-200); an uncaught exception ends the run there.        *)
(***************************************************************************)
EXTENDS Integers, Sequences, FiniteSets, TLC

VARIABLES
    store,            \* crime_data.db on disk: [status, tables, nrows]
    origStatus,       \* status of the file when the process started
    connCache,        \* st.cache_resource entry of get_connection
    handles,          \* every handle sqlite3.connect returned, with its state
    queryCache,       \* st.cache_data entries of run_query, keyed by sql text
    pc,               \* position of the script run
    trigger,          \* what started the current run
    reruns,           \* number of script runs started
    conn,             \* the module global conn of l.37
    query_options,    \* the catalog dict of l.99-173, in insertion order
    selected_example, \* value of the selectbox of l.175
    query,            \* content of the text area of l.191
    reached,          \* sections of the page reached in the current run
    crashedAt,        \* section whose exception escaped in the current run
    lastExec,         \* the latest run_query call and what was displayed
    lastBySql,        \* per sql text: the Table last returned, and the store then
    errorsShown,      \* number of st.error messages displayed so far
    chart             \* chart derivation state (spec section 4.2)

vars == <<store, origStatus, connCache, handles, queryCache, pc, trigger,
          reruns, conn, query_options, selected_example, query, reached,
          crashedAt, lastExec, lastBySql, errorsShown, chart>>

appVars == <<store, origStatus, connCache, handles, queryCache, pc, trigger,
             reruns, conn, query_options, selected_example, query, reached,
             crashedAt, lastExec, lastBySql, errorsShown>>

-----------------------------------------------------------------------------
(* Bounds *)

MaxReruns == 4
MaxRows == 2

-----------------------------------------------------------------------------
(* Cells and tables (pandas DataFrame: ordered columns, ordered rows) *)

Num(i) == [kind |-> "num", num |-> i, text |-> ""]
Text(s) == [kind |-> "text", num |-> 0, text |-> s]
Null == [kind |-> "null", num |-> 0, text |-> ""]

MkTable(cols, rws) == [columns |-> cols, rows |-> rws]
EmptyTable == MkTable(<<>>, <<>>)

Min(a, b) == IF a < b THEN a ELSE b

-----------------------------------------------------------------------------
(* The SQL texts the page can send *)

TableNames == <<"crime_data", "crime_type", "location", "weapon">>
AllTables == {TableNames[i] : i \in 1..Len(TableNames)}

ListTablesSql == "SELECT name FROM sqlite_master WHERE type='table';"
DefaultSql == "SELECT * FROM crime_data LIMIT 10;"
Limit10 == 10

Q1Sql == "SELECT ct.Crm_Cd_Desc AS Crime_Type, COUNT(*) AS Total_Incidents FROM crime_data cd JOIN crime_type ct ... LIMIT 10;"
Q2Sql == "SELECT cd.AREA_NAME, COUNT(*) AS Total_Violent_Crimes, ROUND(AVG(cd.Vict_Age), 1) AS Avg_Victim_Age FROM crime_data cd JOIN crime_type ct ... LIMIT 5;"
Q3Sql == "WITH TopAreas AS (...) SELECT cd.AREA_NAME, w.Weapon_Desc, COUNT(*) AS Weapon_Incidents FROM crime_data cd JOIN weapon w ...;"
Q4Sql == "SELECT Vict_Sex, COUNT(*) AS Total_Reports FROM crime_data WHERE substr(DATE_OCC, 1, 4) = '2023' GROUP BY Vict_Sex;"
Q5Sql == "SELECT TIME_OCC / 100 AS Hour_Block, COUNT(*) AS Reports FROM crime_data ... LIMIT 10;"

\* Texts a user may type into the form besides the default one.
MissingTableSql == "SELECT * FROM nonexistent_table;"
BadSyntaxSql == "SELEC name FRM crime_data"
DropSql == "DROP TABLE crime_data;"
DeleteReturningSql == "DELETE FROM crime_data RETURNING DR_NO;"

CustomInputs == {DefaultSql, Q4Sql, MissingTableSql, BadSyntaxSql, DropSql,
                 DeleteReturningSql}

\* Statements that change stored data when the engine runs them.
IsWrite(sql) == sql \in {DropSql, DeleteReturningSql}

QueryOptionsMutated ==
    << [label |-> "Top 10 Crime Types in 2023", query |-> Q1Sql],
       [label |-> "Top 5 Areas with Most Violent Crimes (2023)", query |-> Q2Sql],
       [label |-> "Weapon Use by Area (Top 5 Areas, 2022-2023)", query |-> Q3Sql],
       [label |-> "Crime Count by Gender in 2023", query |-> DeleteReturningSql],
       [label |-> "Most Dangerous Times of Day (2023)", query |-> Q5Sql] >>

\* The dict literal of l.99-173 (descriptions are display text only).
QueryOptions ==
    << [label |-> "Top 10 Crime Types in 2023", query |-> Q1Sql],
       [label |-> "Top 5 Areas with Most Violent Crimes (2023)", query |-> Q2Sql],
       [label |-> "Weapon Use by Area (Top 5 Areas, 2022-2023)", query |-> Q3Sql],
       [label |-> "Crime Count by Gender in 2023", query |-> Q4Sql],
       [label |-> "Most Dangerous Times of Day (2023)", query |-> Q5Sql] >>

\* list(query_options.keys()), l.175
Keys(opts) == [i \in 1..Len(opts) |-> opts[i].label]
KeySet(opts) == {opts[i].label : i \in 1..Len(opts)}

FirstQuery(opts, label) == opts[1].query

\* query_options[selected_example]["query"], l.180
SelectedQuery(opts, label) ==
    opts[CHOOSE i \in 1..Len(opts) : opts[i].label = label].query

-----------------------------------------------------------------------------
(* The engine: pd.read_sql_query(sql, conn) over sqlite3, l.41.            *)
(* A result is [ok, table, msg, store]: the DataFrame or the exception,    *)
(* and the store as the statement leaves it.                               *)

EngineOk(t, st) == [ok |-> TRUE, table |-> t, msg |-> "", store |-> st]
EngineErr(m, st) == [ok |-> FALSE, table |-> EmptyTable, msg |-> m, store |-> st]

\* One aggregate row over the fact table; GROUP BY over no rows gives no row.
Grouped(cols, needs, row, st) ==
    IF \E t \in needs : t \notin st.tables
    THEN EngineErr("no such table", st)
    ELSE EngineOk(MkTable(cols, IF st.nrows = 0 THEN <<>> ELSE <<row>>), st)

PresentTables(st) == SelectSeq(TableNames, LAMBDA t : t \in st.tables)

read_sql_query(sql, st) ==
    IF st.status = "notadb" THEN EngineErr("file is not a database", st)
    ELSE IF sql = ListTablesSql THEN
        EngineOk(MkTable(<<"name">>,
                 [i \in 1..Len(PresentTables(st)) |-> <<Text(PresentTables(st)[i])>>]), st)
    ELSE IF sql = DefaultSql THEN
        IF "crime_data" \notin st.tables THEN EngineErr("no such table: crime_data", st)
        ELSE EngineOk(MkTable(<<"DR_NO", "Vict_Age", "Vict_Sex">>,
                 [i \in 1..Min(st.nrows, Limit10) |-> <<Num(i), Num(30), Text("M")>>]), st)
    ELSE IF sql = Q1Sql THEN
        Grouped(<<"Crime_Type", "Total_Incidents">>, {"crime_data", "crime_type"},
                <<Text("ASSAULT"), Num(st.nrows)>>, st)
    ELSE IF sql = Q2Sql THEN
        Grouped(<<"AREA_NAME", "Total_Violent_Crimes", "Avg_Victim_Age">>,
                {"crime_data", "crime_type"},
                <<Text("Central"), Num(st.nrows), Num(30)>>, st)
    ELSE IF sql = Q3Sql THEN
        Grouped(<<"AREA_NAME", "Weapon_Desc", "Weapon_Incidents">>,
                {"crime_data", "weapon"},
                <<Text("Central"), Text("KNIFE"), Num(st.nrows)>>, st)
    ELSE IF sql = Q4Sql THEN
        Grouped(<<"Vict_Sex", "Total_Reports">>, {"crime_data"},
                <<Text("M"), Num(st.nrows)>>, st)
    ELSE IF sql = Q5Sql THEN
        Grouped(<<"Hour_Block", "Reports">>, {"crime_data"},
                <<Num(12), Num(st.nrows)>>, st)
    ELSE IF sql = MissingTableSql THEN
        EngineErr("no such table: nonexistent_table", st)
    ELSE IF sql = DropSql THEN
        \* the statement runs; building the DataFrame from a cursor without
        \* a description then raises TypeError
        IF "crime_data" \notin st.tables THEN EngineErr("no such table: crime_data", st)
        ELSE EngineErr("'NoneType' object is not iterable",
                       [st EXCEPT !.tables = @ \ {"crime_data"}, !.nrows = 0])
    ELSE IF sql = DeleteReturningSql THEN
        IF "crime_data" \notin st.tables THEN EngineErr("no such table: crime_data", st)
        ELSE EngineOk(MkTable(<<"DR_NO">>, [i \in 1..st.nrows |-> <<Num(i)>>]),
                      [st EXCEPT !.nrows = 0])
    ELSE EngineErr("syntax error", st)

-----------------------------------------------------------------------------
(* get_connection, l.33-35, under st.cache_resource *)

NoHandle == 0

sqlite3_connect(hs, st) ==
    IF st.status = "unreadable"
    THEN [ok |-> FALSE, conn |-> NoHandle, cache |-> NoHandle, handles |-> hs,
          store |-> st]
    ELSE [ok |-> TRUE, conn |-> Len(hs) + 1, cache |-> Len(hs) + 1,
          handles |-> Append(hs, "open"),
          \* a missing file is created as an empty database
          store |-> IF st.status = "missing"
                    THEN [status |-> "ok", tables |-> {}, nrows |-> 0]
                    ELSE st]

get_connection_uncached(cache, hs, st) == sqlite3_connect(hs, st)

get_connection(cache, hs, st) ==
    IF cache # NoHandle
    THEN [ok |-> TRUE, conn |-> cache, cache |-> cache, handles |-> hs,
          store |-> st]
    ELSE sqlite3_connect(hs, st)

-----------------------------------------------------------------------------
(* run_query, l.39-41, under st.cache_data: a hit returns the stored       *)
(* DataFrame without calling the function; an exception is not stored.     *)

Miss(sql, con, cache, st, r, runs, stored) ==
    [ok |-> r.ok, table |-> r.table, msg |-> r.msg,
     cache |-> IF r.ok THEN (sql :> stored) @@ cache ELSE cache,
     store |-> r.store, engineRuns |-> runs, hit |-> FALSE, handle |-> con]

Hit(sql, cache, st) ==
    [ok |-> TRUE, table |-> cache[sql], msg |-> "", cache |-> cache,
     store |-> st, engineRuns |-> 0, hit |-> TRUE, handle |-> NoHandle]

\* retries a failed statement once
run_query_retry(sql, con, cache, st) ==
    IF sql \in DOMAIN cache THEN Hit(sql, cache, st)
    ELSE LET r == read_sql_query(sql, st) IN
         IF r.ok THEN Miss(sql, con, cache, st, r, 1, r.table)
         ELSE LET r2 == read_sql_query(sql, r.store) IN
              Miss(sql, con, cache, st, r2, 2, r2.table)

\* stores the column header only
run_query_lossy(sql, con, cache, st) ==
    IF sql \in DOMAIN cache THEN Hit(sql, cache, st)
    ELSE LET r == read_sql_query(sql, st) IN
         Miss(sql, con, cache, st, r, 1, MkTable(r.table.columns, <<>>))

run_query(sql, con, cache, st) ==
    IF sql \in DOMAIN cache THEN Hit(sql, cache, st)
    ELSE LET r == read_sql_query(sql, st) IN
         Miss(sql, con, cache, st, r, 1, r.table)

-----------------------------------------------------------------------------
(* What each call site does with the result of run_query *)

\* l.91-92: no try/except around the call
tables_outcome(r) == IF r.ok THEN "table" ELSE "fault"

\* l.179-183
predefined_outcome(r) == IF r.ok THEN "table" ELSE "error"

custom_outcome_unguarded(r) == IF r.ok THEN "table" ELSE "fault"

\* l.195-200
custom_outcome(r) == IF r.ok THEN "table" ELSE "error"

-----------------------------------------------------------------------------
(* Bookkeeping of one run_query call at a call site *)

NoExec ==
    [site |-> "none", sql |-> "", label |-> "", outcome |-> "none",
     table |-> EmptyTable, msg |-> "", engineRuns |-> 0, hit |-> FALSE,
     handle |-> NoHandle, freshOk |-> FALSE, freshTable |-> EmptyTable,
     storeBefore |-> [status |-> "ok", tables |-> {}, nrows |-> 0],
     storeAfter |-> [status |-> "ok", tables |-> {}, nrows |-> 0],
     errorsBefore |-> 0, prevExists |-> FALSE, prevTable |-> EmptyTable,
     prevStore |-> [status |-> "ok", tables |-> {}, nrows |-> 0]]

\* The effect of calling run_query(sql) at `site` and handling the result
\* with that site's boundary; a fault ends the script run.
Call(site, sql, label, r, out, nextPc) ==
    /\ store' = r.store
    /\ queryCache' = r.cache
    /\ lastExec' =
         [site |-> site, sql |-> sql, label |-> label, outcome |-> out,
          table |-> r.table, msg |-> r.msg, engineRuns |-> r.engineRuns,
          hit |-> r.hit, handle |-> r.handle,
          freshOk |-> read_sql_query(sql, store).ok,
          freshTable |-> read_sql_query(sql, store).table,
          storeBefore |-> store, storeAfter |-> r.store,
          errorsBefore |-> errorsShown,
          prevExists |-> sql \in DOMAIN lastBySql,
          prevTable |-> IF sql \in DOMAIN lastBySql
                        THEN lastBySql[sql].table ELSE EmptyTable,
          prevStore |-> IF sql \in DOMAIN lastBySql
                        THEN lastBySql[sql].store ELSE NoExec.prevStore]
    /\ lastBySql' = IF out = "table"
                    THEN (sql :> [table |-> r.table, store |-> store]) @@ lastBySql
                    ELSE lastBySql
    /\ errorsShown' = IF out = "error" THEN errorsShown + 1 ELSE errorsShown
    /\ crashedAt' = IF out = "fault" THEN site ELSE crashedAt
    /\ pc' = IF out = "fault" THEN "idle" ELSE nextPc

-----------------------------------------------------------------------------
(* Initial state: the process has started, no script run yet *)

\* no table on display, no chart asked for
ChartIdle ==
    [table |-> EmptyTable, calls |-> 0,
     request |-> [xCol |-> "", yCol |-> "", kind |-> ""],
     result |-> [ok |-> FALSE, xCol |-> "", yCol |-> "", kind |-> "", title |-> <<>>],
     state |-> "idle", rendered |-> {}]

InitApp ==
    /\ origStatus \in {"ok", "missing", "unreadable", "notadb"}
    /\ store \in
         IF origStatus = "ok"
         THEN {[status |-> "ok", tables |-> AllTables, nrows |-> n] : n \in 1..MaxRows}
         ELSE {[status |-> origStatus, tables |-> {}, nrows |-> 0]}
    /\ connCache = NoHandle
    /\ handles = <<>>
    /\ queryCache = <<>>
    /\ pc = "idle"
    /\ trigger = "none"
    /\ reruns = 0
    /\ conn = NoHandle
    /\ query_options = QueryOptions
    /\ selected_example = QueryOptions[1].label
    /\ query = DefaultSql
    /\ reached = {}
    /\ crashedAt = "none"
    /\ lastExec = NoExec
    /\ lastBySql = <<>>
    /\ errorsShown = 0

Init == InitApp /\ chart = ChartIdle

-----------------------------------------------------------------------------
(* What starts a script run *)

StartRun(t) ==
    /\ pc = "idle"
    /\ reruns < MaxReruns
    /\ reruns' = reruns + 1
    /\ trigger' = t
    /\ pc' = "connect"
    /\ reached' = {}
    /\ crashedAt' = "none"
    /\ UNCHANGED <<store, origStatus, connCache, handles, queryCache, conn,
                   query_options, lastExec, lastBySql, errorsShown, chart>>

\* the browser loads or reloads the page
PageLoad ==
    /\ StartRun("load")
    /\ UNCHANGED <<selected_example, query>>

\* the selectbox of l.175 is changed; it exists only once rendered
ChooseExample ==
    /\ "predefined" \in reached
    /\ \E l \in KeySet(query_options) :
         /\ l # selected_example
         /\ selected_example' = l
    /\ StartRun("select")
    /\ UNCHANGED query

\* the button of l.178 is clicked
ClickRunSelected ==
    /\ "predefined" \in reached
    /\ StartRun("button")
    /\ UNCHANGED <<selected_example, query>>

\* the form of l.190-192 is submitted with some text
SubmitCustom ==
    /\ "custom" \in reached
    /\ \E q \in CustomInputs : query' = q
    /\ StartRun("submit")
    /\ UNCHANGED selected_example

-----------------------------------------------------------------------------
(* The script, top to bottom *)

\* l.37: conn = get_connection()
Connect ==
    /\ pc = "connect"
    /\ LET c == get_connection(connCache, handles, store) IN
         /\ connCache' = c.cache
         /\ handles' = c.handles
         /\ store' = c.store
         /\ conn' = IF c.ok THEN c.conn ELSE conn
         /\ pc' = IF c.ok THEN "tables" ELSE "idle"
         /\ crashedAt' = IF c.ok THEN crashedAt ELSE "connect"
    /\ UNCHANGED <<origStatus, queryCache, trigger, reruns, query_options,
                   selected_example, query, reached, lastExec, lastBySql,
                   errorsShown, chart>>

\* l.90-92: the Available Tables expander
TablesSection ==
    /\ pc = "tables"
    /\ reached' = reached \cup {"tables"}
    /\ LET r == run_query(ListTablesSql, conn, queryCache, store) IN
         Call("tables", ListTablesSql, "", r, tables_outcome(r), "predefined")
    /\ UNCHANGED <<origStatus, connCache, handles, trigger, reruns, conn,
                   query_options, selected_example, query, chart>>

\* l.97-183: the catalog, the selectbox and the Run Selected Query button
PredefinedSection ==
    /\ pc = "predefined"
    /\ reached' = reached \cup {"predefined"}
    /\ query_options' = QueryOptions
    /\ IF trigger = "button"
       THEN LET sql == SelectedQuery(query_options', selected_example)
                r == run_query(sql, conn, queryCache, store)
            IN Call("predefined", sql, selected_example, r,
                    predefined_outcome(r), "custom")
       ELSE /\ pc' = "custom"
            /\ UNCHANGED <<store, queryCache, lastExec, lastBySql,
                           errorsShown, crashedAt>>
    /\ UNCHANGED <<origStatus, connCache, handles, trigger, reruns, conn,
                   selected_example, query, chart>>

\* l.188-200: the custom SQL form and its submit handler
CustomSection ==
    /\ pc = "custom"
    /\ reached' = reached \cup {"custom"}
    /\ IF trigger = "submit"
       THEN LET r == run_query(query, conn, queryCache, store) IN
            Call("custom", query, "", r, custom_outcome(r), "idle")
       ELSE /\ pc' = "idle"
            /\ UNCHANGED <<store, queryCache, lastExec, lastBySql,
                           errorsShown, crashedAt>>
    /\ UNCHANGED <<origStatus, connCache, handles, trigger, reruns, conn,
                   query_options, selected_example, query, chart>>

Next ==
    \/ PageLoad
    \/ ChooseExample
    \/ ClickRunSelected
    \/ SubmitCustom
    \/ Connect
    \/ TablesSection
    \/ PredefinedSection
    \/ CustomSection

Spec == Init /\ [][Next]_vars

-----------------------------------------------------------------------------
(* Chart request derivation (spec sections 4.1 and 4.2)                    *)

ChartKinds == {"scatter", "bar", "line"}

IsNumeric(cell) == cell.kind \in {"num", "null"}

\* columns whose cells are all numbers or null; none for a table without rows
numericColumns(table) ==
    IF Len(table.rows) = 0 THEN {}
    ELSE {table.columns[c] : c \in
            {c \in 1..Len(table.columns) :
               \A r \in 1..Len(table.rows) : IsNumeric(table.rows[r][c])}}

ChartTitle(xCol, yCol, kind) ==
    IF kind = "scatter" THEN <<yCol, " vs ", xCol>>
    ELSE IF kind = "bar" THEN <<yCol, " by ", xCol>>
    ELSE <<yCol, " over ", xCol>>

NoChartSpec == [ok |-> FALSE, xCol |-> "", yCol |-> "", kind |-> "", title |-> <<>>]

\* validates the x column only
buildChartRequest_xonly(table, xCol, yCol, kind) ==
    IF xCol \notin numericColumns(table) \/ kind \notin ChartKinds
    THEN NoChartSpec
    ELSE [ok |-> TRUE, xCol |-> xCol, yCol |-> yCol, kind |-> kind,
          title |-> ChartTitle(xCol, yCol, kind)]

buildChartRequest(table, xCol, yCol, kind) ==
    IF \/ xCol \notin numericColumns(table)
       \/ yCol \notin numericColumns(table)
       \/ kind \notin ChartKinds
    THEN NoChartSpec
    ELSE [ok |-> TRUE, xCol |-> xCol, yCol |-> yCol, kind |-> kind,
          title |-> ChartTitle(xCol, yCol, kind)]

MaxCharts == 2
MaxChartRows == 2

ChartCells == {Num(1), Text("x"), Null}
ChartColumns == <<"a", "b">>
ChartRowsOf(n) == [1..n -> [1..Len(ChartColumns) -> ChartCells]]
ChartTables ==
    UNION {{MkTable(ChartColumns, rws) : rws \in ChartRowsOf(n)} : n \in 0..MaxChartRows}

ColumnChoices == {"a", "b", "zz"}
KindChoices == ChartKinds \cup {"pie"}

NoRequest == [xCol |-> "", yCol |-> "", kind |-> ""]

InitChart ==
    /\ InitApp
    /\ origStatus = "ok"
    /\ store.nrows = 1
    /\ chart \in {[table |-> t, calls |-> 0, request |-> NoRequest,
                   result |-> NoChartSpec, state |-> "idle", rendered |-> {}]
                  : t \in ChartTables}

\* the shell asks for a chart of the table on display
RequestChart ==
    /\ chart.state \in {"idle", "error", "drawn"}
    /\ chart.calls < MaxCharts
    /\ \E x \in ColumnChoices, y \in ColumnChoices, k \in KindChoices :
         LET r == buildChartRequest(chart.table, x, y, k) IN
         chart' = [chart EXCEPT !.calls = @ + 1,
                                !.request = [xCol |-> x, yCol |-> y, kind |-> k],
                                !.result = r,
                                !.state = IF r.ok THEN "built" ELSE "error"]
    /\ UNCHANGED appVars

\* render(ChartSpec): the renderer draws whatever it is handed
RenderChart ==
    /\ chart.state = "built"
    /\ chart' = [chart EXCEPT !.state = "drawn",
                              !.rendered = @ \cup {chart.result}]
    /\ UNCHANGED appVars

NextChart == RequestChart \/ RenderChart

SpecChart == InitChart /\ [][NextChart]_vars

-----------------------------------------------------------------------------
(* Properties *)

UserSites == {"predefined", "custom"}

\* C1: every query submitted through the custom SQL form or the Run Selected
\* Query button ends as a displayed Table or a displayed QueryError; no fault
\* escapes either handler.
C1_TableOrError ==
    /\ crashedAt \notin UserSites
    /\ lastExec.site \in UserSites => lastExec.outcome \in {"table", "error"}

C1_Witness ==
    /\ lastExec.site = "custom"
    /\ lastExec.sql = BadSyntaxSql
    /\ lastExec.outcome = "error"
    /\ pc = "idle"

\* C2: an engine error is neither fatal nor retried: a user query the engine
\* accepts returns a Table even after earlier QueryErrors, and a failing query
\* is run against the engine exactly once per submission.
C2_NotFatalNotRetried ==
    lastExec.site \in UserSites =>
        /\ lastExec.engineRuns <= 1
        /\ lastExec.outcome = "error" => lastExec.engineRuns = 1
        /\ (lastExec.errorsBefore > 0 /\ lastExec.freshOk)
             => lastExec.outcome = "table"

C2_Witness ==
    /\ lastExec.site = "custom"
    /\ lastExec.errorsBefore > 0
    /\ lastExec.freshOk
    /\ ~lastExec.hit
    /\ lastExec.outcome = "table"

\* C3: two executions of the same query text with the dataset unmodified
\* from the start of the first to the end of the second return the same Table
\* (columns, rows, cells), cache hit or not.
C3_Idempotent ==
    ( /\ lastExec.outcome = "table"
      /\ lastExec.prevExists
      /\ lastExec.prevStore = lastExec.storeBefore
      /\ lastExec.storeAfter = lastExec.storeBefore )
    => lastExec.table = lastExec.prevTable

C3_Witness ==
    /\ lastExec.site = "custom"
    /\ lastExec.outcome = "table"
    /\ lastExec.prevExists
    /\ lastExec.prevStore = lastExec.storeBefore
    /\ lastExec.storeAfter = lastExec.storeBefore
    /\ Len(lastExec.table.rows) > 0

\* C4: the Table execute returns for a query text equals the Table the engine
\* returns for it on the dataset as it is at the time of the call.
C4_CacheTransparent ==
    lastExec.outcome = "table" =>
        /\ lastExec.freshOk
        /\ lastExec.table = lastExec.freshTable

\* C5: at most one connection handle is ever opened, every execution that
\* reaches the engine uses it, and it is never closed or reopened.
C5_OneHandle ==
    /\ Len(handles) <= 1
    /\ \A i \in 1..Len(handles) : handles[i] = "open"
    /\ conn \in {NoHandle, 1}
    /\ (lastExec.site # "none" /\ ~lastExec.hit) => lastExec.handle = 1

C5_Witness ==
    /\ reruns >= 3
    /\ Len(handles) = 1
    /\ lastExec.site = "custom"
    /\ ~lastExec.hit
    /\ lastExec.handle = 1

CatalogLabels ==
    << "Top 10 Crime Types in 2023",
       "Top 5 Areas with Most Violent Crimes (2023)",
       "Weapon Use by Area (Top 5 Areas, 2022-2023)",
       "Crime Count by Gender in 2023",
       "Most Dangerous Times of Day (2023)" >>

CatalogQueries == <<Q1Sql, Q2Sql, Q3Sql, Q4Sql, Q5Sql>>

\* C7: the catalog always holds the same 5 entries in the same order, the
\* selected label is one of them, and Run Selected Query passes to run_query
\* exactly the SQL text stored under the selected label.
C7_CatalogFixed ==
    /\ Len(query_options) = 5
    /\ Keys(query_options) = CatalogLabels
    /\ [i \in 1..Len(query_options) |-> query_options[i].query] = CatalogQueries
    /\ selected_example \in KeySet(query_options)
    /\ lastExec.site = "predefined" =>
         \E i \in 1..Len(query_options) :
              /\ query_options[i].label = lastExec.label
              /\ query_options[i].query = lastExec.sql

C7_Witness ==
    /\ lastExec.site = "predefined"
    /\ lastExec.label = CatalogLabels[4]
    /\ lastExec.sql = Q4Sql
    /\ reruns >= 3

\* C8: when the dataset file is missing or unreadable at open time, opening
\* fails and no query at all is executed in that session.
C8_OpenFailureIsFatal ==
    origStatus \in {"missing", "unreadable"} =>
        /\ Len(handles) = 0
        /\ lastExec.site = "none"

\* C9: a chart request whose x or y column is not in numericColumns(table) is
\* rejected for every chart kind, before the renderer is called; everything
\* the renderer was handed had been validated.
C9_RejectBeforeRender ==
    /\ (chart.calls > 0
        /\ (chart.request.xCol \notin numericColumns(chart.table)
            \/ chart.request.yCol \notin numericColumns(chart.table)))
       => (chart.state = "error" /\ ~chart.result.ok)
    /\ \A sp \in chart.rendered :
         /\ sp.ok
         /\ sp.xCol \in numericColumns(chart.table)
         /\ sp.yCol \in numericColumns(chart.table)
         /\ sp.kind \in ChartKinds

C9_Witness ==
    /\ chart.calls = 2
    /\ chart.state = "error"
    /\ chart.request.xCol \in numericColumns(chart.table)
    /\ chart.request.yCol \in {"a", "b"} \ numericColumns(chart.table)
    /\ chart.request.kind = "bar"
    /\ Cardinality(chart.rendered) = 1

\* C10: every call site that runs a query is inside an error boundary: a
\* fault of any query of the page, the automatic table listing included, is
\* shown as a QueryError and the rest of the page is still reached.
C10_EveryCallSiteGuarded ==
    /\ crashedAt \notin {"tables", "predefined", "custom"}
    /\ lastExec.site # "none" => lastExec.outcome \in {"table", "error"}
    /\ (pc = "idle" /\ "tables" \in reached)
         => {"predefined", "custom"} \subseteq reached

====
